---- MODULE Spec2Model ----
(***************************************************************************)
(* Model of the Cosyne 2020 NWB tutorial notebook                          *)
(* (src/Cosyne 2020/NWB_tutorial_2020.ipynb).                              *)
(*                                                                         *)
(* The notebook is a linear script: it builds an NWBFile in memory, writes *)
(* it twice to 'ecephys_tutorial.nwb', and reads it back in two read       *)
(* sessions.  The state is the in-memory file object `nwb` (its electrodes *)
(* table, LFP array and the indexed spike_times column of the units        *)
(* table), the file on disk, the NWBHDF5IO handle, and what the read       *)
(* sessions print.  The indexed column is kept as the notebook describes   *)
(* it: a vector data object (values) and a vector index object (row_ends)  *)
(* holding the row breaks.                                                 *)
(***************************************************************************)
EXTENDS Integers, Sequences, FiniteSets, TLC

(***************************************************************************)
(* Bounds of the model.  The notebook draws its data at random             *)
(* (np.random.poisson, np.random.exponential, np.random.randn); the model  *)
(* draws from these bounded sets instead.                                  *)
(***************************************************************************)
\* largest n_spikes one unit may draw
MaxSpikes == 2

\* spike times are drawn from 1..MaxTime
MaxTime == 2

\* cap on the total number of spike times of all units
MaxValues == 2

\* number of different LFP matrices np.random.randn may return
NumSeeds == 2

(***************************************************************************)
(* Constants of the program.                                               *)
(***************************************************************************)
\* n_units = 10
n_units == 10

\* lfp_data = np.random.randn(100, 7): first extent
NSamples == 100

\* lfp_data = np.random.randn(100, 7): second extent
NChannels == 7

\* position_data: np.linspace(.., .., 100), two columns transposed
NPositionRows == 100

\* np.linspace(0, 100) without num: numpy's default of 50 samples
NTimestamps == 50

VARIABLES
    pc,                \* the cell / statement the script is at
    io,                \* the NWBHDF5IO handle: "closed", "w" or "r"
    position,          \* [rows, timestamps] of the SpatialSeries, <<>> before
    n_trials,          \* rows of the trials table
    shankn,            \* outer loop index of the electrode loop
    ielec,             \* inner loop index of the electrode loop
    electrode_counter, \* the script's own counter
    electrodes,        \* electrodes table: the group (shank) of each row
    n_groups,          \* electrode groups created
    table_region,      \* rows referenced by all_table_region
    lfp_data,          \* in-memory LFP array, NoArray before
    values,            \* spike_times vector data (all rows concatenated)
    row_ends,          \* spike_times vector index (row breaks)
    n_units_per_shank, \* loop index of the units loop
    appended,          \* history: the rows passed to add_unit, in order
    file,              \* what is on disk: [lfp, values, row_ends, units]
    nwb2,              \* lazy handles of io.read(): "none", "bound", "stale"
    last_op,           \* the last statement on the io or a lazy handle
    last_region,       \* region of the last slice
    last_index,        \* index of the last row access
    out_lfp,           \* the array the last statement printed: [shape, flat]
    out_row,           \* the row the last statement printed
    readLfp,           \* LFP elements (offsets) the last statement transferred
    readValues,        \* positions of values the last statement transferred
    readIndex          \* positions of row_ends the last statement transferred

writerVars == <<position, n_trials, shankn, ielec, electrode_counter,
                electrodes, n_groups, table_region, lfp_data, values,
                row_ends, n_units_per_shank, appended>>

readerVars == <<nwb2, last_op, last_region, last_index, out_lfp, out_row,
                readLfp, readValues, readIndex>>

vars == <<pc, io, file, writerVars, readerVars>>

(***************************************************************************)
(* Helpers.                                                                *)
(***************************************************************************)
RECURSIVE CumSum(_)
\* np.cumsum of a sequence of increments
CumSum(incs) ==
    IF incs = <<>> THEN <<>>
    ELSE LET n == Len(incs)
             front == CumSum(SubSeq(incs, 1, n - 1))
         IN  Append(front, (IF n = 1 THEN 0 ELSE front[n - 1]) + incs[n])

RECURSIVE SumLens(_)
\* total length of a sequence of rows
SumLens(rows) ==
    IF rows = <<>> THEN 0 ELSE Len(rows[1]) + SumLens(Tail(rows))

RECURSIVE Flatten(_)
\* concatenation of a sequence of rows
Flatten(rows) ==
    IF rows = <<>> THEN <<>> ELSE rows[1] \o Flatten(Tail(rows))

\* the inter-spike intervals np.random.exponential may return: n_spikes of
\* them, n_spikes <= MaxSpikes, positive, the last spike no later than MaxTime
Intervals ==
    { incs \in UNION { [1..n -> 1..MaxTime] : n \in 0..MaxSpikes } :
        incs = <<>> \/ CumSum(incs)[Len(incs)] <= MaxTime }

\* the spike_times arrays one loop iteration may build
SpikeTrains == { CumSum(incs) : incs \in Intervals }

\* np.random.randn(100, 7): one of NumSeeds arrays of that shape.  An array
\* is never changed once drawn, so it is held as its shape and the draw that
\* made it; At gives its elements.
Randn(seed) == [shape |-> <<NSamples, NChannels>>, seed |-> seed]

\* element <<i, j>> (0-based) of an array or dataset: the entries of one
\* array differ from position to position, and differ between the draws
At(array, i, j) ==
    ((2 * array.seed + 1) * (i * array.shape[2] + j) + array.seed) % 701

\* no array yet
NoArray == [shape |-> <<0, 0>>, seed |-> 0]

\* shank_channels = [4, 3]
shank_channels == <<4, 3>>

\* a dataset that is not in the file
NoDataset == NoArray

\* the file right after NWBHDF5IO(.., 'w') created or truncated it
EmptyFile ==
    [lfp |-> NoDataset, values |-> <<>>, row_ends |-> <<>>, units |-> FALSE]

NoRegion == <<>>

NoResult == [shape |-> <<>>, flat |-> <<>>]

(***************************************************************************)
(* The indexed (ragged) column spike_times of the units table.             *)
(***************************************************************************)
\* a plausible slip: the new row is put in front of the buffer
AppendValuesFront(vals, elements) == elements \o vals

\* add_unit: the vector data object after a row is added
AppendValues(vals, elements) == vals \o elements

\* a plausible slip: the index stores the row's own length
NextRowEndOwnLength(vals, elements) == Len(elements)

\* add_unit: the row break the vector index object receives
NextRowEnd(vals, elements) == Len(vals) + Len(elements)

\* number of rows of an indexed column
row_count(ends) == Len(ends)

\* a plausible slip: every row starts at the beginning of the buffer
RowStartZero(ends, index) == 0

\* start offset of row `index` (0-based): the previous row break, or 0
RowStart(ends, index) == IF index = 0 THEN 0 ELSE ends[index]

\* end offset (exclusive) of row `index` (0-based): its own row break
RowEnd(ends, index) == ends[index + 1]

\* units['spike_times'][index]: the times of one unit
get_row(ends, vals, index) ==
    SubSeq(vals, RowStart(ends, index) + 1, RowEnd(ends, index))

\* positions of the vector index a row access reads (0-based)
IndexPositions(ends, index) ==
    {index} \cup (IF index > 0 THEN {index - 1} ELSE {})

\* a plausible slip: the buffer is read from its beginning
ValuePositionsPrefix(ends, index) == 0..(RowEnd(ends, index) - 1)

\* positions of the vector data a row access reads (0-based)
ValuePositions(ends, index) ==
    RowStart(ends, index)..(RowEnd(ends, index) - 1)

(***************************************************************************)
(* Lazy arrays: TimeSeries.data presents an object that is indexed like a  *)
(* numpy array to read a section of the dataset.                           *)
(***************************************************************************)
\* a single index, data[i]
Index(i) == [kind |-> "index", lo |-> i, hi |-> i + 1]

\* a contiguous range, data[lo:hi]
Range(lo, hi) == [kind |-> "range", lo |-> lo, hi |-> hi]

\* the full axis, data[:]
All == [kind |-> "all", lo |-> 0, hi |-> 0]

\* the dataset a numpy array is written as: same shape, same elements
Dataset(array) == [shape |-> array.shape, seed |-> array.seed]

\* declared extents of a dataset; no element is read
Shape(ds) == ds.shape

\* a region with the trailing axes it leaves out taken in full
Normalise(region) ==
    IF Len(region) = 1 THEN <<region[1], All>> ELSE region

\* first selected position of an axis of extent n (0-based)
SelLo(sel, n) == IF sel.kind = "all" THEN 0 ELSE sel.lo

\* end (exclusive) of the selected positions of an axis of extent n
SelHi(sel, n) == IF sel.kind = "all" THEN n ELSE sel.hi

\* the selector stays inside an axis of extent n
SelInBounds(sel, n) ==
    CASE sel.kind = "all"   -> TRUE
      [] sel.kind = "index" -> 0 <= sel.lo /\ sel.lo < n
      [] OTHER              -> 0 <= sel.lo /\ sel.lo <= sel.hi /\ sel.hi <= n

\* the region stays inside the dataset's declared shape
InBounds(ds, region) ==
    /\ Len(region) \in {1, 2}
    /\ \A d \in 1..2 : SelInBounds(Normalise(region)[d], Shape(ds)[d])

\* a plausible slip: the column offset of the region is dropped
SliceNoColumnOffset(ds, region) ==
    LET r   == Normalise(region)
        lo0 == SelLo(r[1], Shape(ds)[1])
        hi0 == SelHi(r[1], Shape(ds)[1])
        lo1 == SelLo(r[2], Shape(ds)[2])
        hi1 == SelHi(r[2], Shape(ds)[2])
        h   == hi0 - lo0
        w   == hi1 - lo1
    IN  [shape |-> (IF r[1].kind = "index" THEN <<>> ELSE <<h>>)
                   \o (IF r[2].kind = "index" THEN <<>> ELSE <<w>>),
         flat  |-> [k \in 1..(h * w) |->
                      At(ds, lo0 + ((k - 1) \div w), (k - 1) % w)]]

\* data[region]: the addressed section, materialized
Slice(ds, region) ==
    LET r   == Normalise(region)
        lo0 == SelLo(r[1], Shape(ds)[1])
        hi0 == SelHi(r[1], Shape(ds)[1])
        lo1 == SelLo(r[2], Shape(ds)[2])
        hi1 == SelHi(r[2], Shape(ds)[2])
        h   == hi0 - lo0
        w   == hi1 - lo1
    IN  [shape |-> (IF r[1].kind = "index" THEN <<>> ELSE <<h>>)
                   \o (IF r[2].kind = "index" THEN <<>> ELSE <<w>>),
         flat  |-> [k \in 1..(h * w) |->
                      At(ds, lo0 + ((k - 1) \div w), lo1 + ((k - 1) % w))]]

\* a plausible slip: the whole dataset is loaded and cut in memory
TransferredAll(ds, region) == 0..(Shape(ds)[1] * Shape(ds)[2] - 1)

\* elements of the dataset that data[region] transfers, each named by its
\* row-major offset i * (second extent) + j
Transferred(ds, region) ==
    LET r   == Normalise(region)
        lo0 == SelLo(r[1], Shape(ds)[1])
        hi0 == SelHi(r[1], Shape(ds)[1])
        lo1 == SelLo(r[2], Shape(ds)[2])
        hi1 == SelHi(r[2], Shape(ds)[2])
    IN  { i * Shape(ds)[2] + j : i \in lo0..(hi0 - 1), j \in lo1..(hi1 - 1) }

(***************************************************************************)
(* The script.                                                             *)
(***************************************************************************)
\* state after the first cells: nwb = NWBFile(...), nothing on disk
Init ==
    /\ pc = "position"
    /\ io = "closed"
    /\ position = <<>>
    /\ n_trials = 0
    /\ shankn = 0
    /\ ielec = 0
    /\ electrode_counter = 0
    /\ electrodes = <<>>
    /\ n_groups = 0
    /\ table_region = <<>>
    /\ lfp_data = NoArray
    /\ values = <<>>
    /\ row_ends = <<>>
    /\ n_units_per_shank = 0
    /\ appended = <<>>
    /\ file = EmptyFile
    /\ nwb2 = "none"
    /\ last_op = "none"
    /\ last_region = NoRegion
    /\ last_index = 0
    /\ out_lfp = NoResult
    /\ out_row = <<>>
    /\ readLfp = {}
    /\ readValues = {}
    /\ readIndex = {}

\* spatial_series_object = SpatialSeries(name='position', ...)
CreatePosition ==
    /\ pc = "position"
    /\ position' = [rows |-> NPositionRows, timestamps |-> NTimestamps]
    /\ pc' = "w1_open"
    /\ UNCHANGED <<io, file, n_trials, shankn, ielec, electrode_counter,
                   electrodes, n_groups, table_region, lfp_data, values,
                   row_ends, n_units_per_shank, appended, readerVars>>

\* a statement that indexes no lazy handle prints nothing and transfers
\* nothing; the array the statement before it printed is gone
NoTransfer(op) ==
    /\ last_op' = op
    /\ out_lfp' = NoResult
    /\ out_row' = <<>>
    /\ readLfp' = {}
    /\ readValues' = {}
    /\ readIndex' = {}
    /\ UNCHANGED <<last_region, last_index>>

\* NWBHDF5IO('ecephys_tutorial.nwb', 'w'): mode 'w' creates or truncates
OpenWrite(here, next) ==
    /\ pc = here
    /\ io = "closed"
    /\ io' = "w"
    /\ file' = EmptyFile
    /\ pc' = next
    /\ NoTransfer("open")
    /\ UNCHANGED <<writerVars, nwb2>>

\* what io.write(nwb) puts on disk: the LFP dataset and the two buffers of
\* the indexed column
Persist(lfp, vals, ends) ==
    [lfp      |-> IF lfp = NoArray THEN NoDataset ELSE Dataset(lfp),
     values   |-> vals,
     row_ends |-> ends,
     units    |-> ends # <<>>]

\* io.write(nwb)
Write(here, next) ==
    /\ pc = here
    /\ io = "w"
    /\ file' = Persist(lfp_data, values, row_ends)
    /\ pc' = next
    /\ NoTransfer("write")
    /\ UNCHANGED <<io, writerVars, nwb2>>

\* the handles of nwb2 once the io they were read from is closed
Released(handles) == IF handles = "bound" THEN "stale" ELSE handles

\* leaving a `with NWBHDF5IO(...) as io:` block, or io.close()
Close(here, next) ==
    /\ pc = here
    /\ io # "closed"
    /\ io' = "closed"
    /\ nwb2' = Released(nwb2)
    /\ pc' = next
    /\ NoTransfer("close")
    /\ UNCHANGED <<file, writerVars>>

\* first write: with NWBHDF5IO(.., 'w') as io: io.write(nwb)
OpenWrite1 == OpenWrite("w1_open", "w1_write")

Write1 == Write("w1_write", "w1_exit")

CloseWrite1 == Close("w1_exit", "trials")

\* nwb.add_trial_column(...); nwb.add_trial(...); nwb.add_trial(...)
AddTrials ==
    /\ pc = "trials"
    /\ n_trials' = n_trials + 2
    /\ pc' = "electrodes"
    /\ UNCHANGED <<io, file, position, shankn, ielec, electrode_counter,
                   electrodes, n_groups, table_region, lfp_data, values,
                   row_ends, n_units_per_shank, appended, readerVars>>

\* electrode_counter = 0; device = nwb.create_device('array')
ElectrodeSetup ==
    /\ pc = "electrodes"
    /\ electrode_counter' = 0
    /\ shankn' = 0
    /\ pc' = "shank"
    /\ UNCHANGED <<io, file, position, n_trials, ielec, electrodes, n_groups,
                   table_region, lfp_data, values, row_ends,
                   n_units_per_shank, appended, readerVars>>

\* for shankn, nelecs in enumerate(shank_channels): create_electrode_group
NextShank ==
    /\ pc = "shank"
    /\ IF shankn < Len(shank_channels)
       THEN /\ n_groups' = n_groups + 1
            /\ ielec' = 0
            /\ pc' = "electrode"
       ELSE /\ pc' = "region"
            /\ UNCHANGED <<n_groups, ielec>>
    /\ UNCHANGED <<io, file, position, n_trials, shankn, electrode_counter,
                   electrodes, table_region, lfp_data, values, row_ends,
                   n_units_per_shank, appended, readerVars>>

\* a plausible slip: electrode_counter += 1 sits in the outer loop and counts
\* shanks
AddElectrodeCountsShanks ==
    /\ pc = "electrode"
    /\ IF ielec < shank_channels[shankn + 1]
       THEN /\ electrodes' = Append(electrodes, shankn)
            /\ ielec' = ielec + 1
            /\ UNCHANGED <<shankn, pc, electrode_counter>>
       ELSE /\ shankn' = shankn + 1
            /\ electrode_counter' = electrode_counter + 1
            /\ pc' = "shank"
            /\ UNCHANGED <<electrodes, ielec>>
    /\ UNCHANGED <<io, file, position, n_trials, n_groups, table_region,
                   lfp_data, values, row_ends, n_units_per_shank, appended,
                   readerVars>>

\* for ielec in range(nelecs): nwb.add_electrode(...); electrode_counter += 1
AddElectrode ==
    /\ pc = "electrode"
    /\ IF ielec < shank_channels[shankn + 1]
       THEN /\ electrodes' = Append(electrodes, shankn)
            /\ electrode_counter' = electrode_counter + 1
            /\ ielec' = ielec + 1
            /\ UNCHANGED <<shankn, pc>>
       ELSE /\ shankn' = shankn + 1
            /\ pc' = "shank"
            /\ UNCHANGED <<electrodes, electrode_counter, ielec>>
    /\ UNCHANGED <<io, file, position, n_trials, n_groups, table_region,
                   lfp_data, values, row_ends, n_units_per_shank, appended,
                   readerVars>>

\* nwb.create_electrode_table_region(list(range(electrode_counter)), ...)
CreateTableRegion ==
    /\ pc = "region"
    /\ table_region' = [k \in 1..electrode_counter |-> k - 1]
    /\ pc' = "lfp"
    /\ UNCHANGED <<io, file, position, n_trials, shankn, ielec,
                   electrode_counter, electrodes, n_groups, lfp_data, values,
                   row_ends, n_units_per_shank, appended, readerVars>>

\* lfp_data = np.random.randn(100, 7); ... ElectricalSeries(data=lfp_data)
CreateLfp ==
    /\ pc = "lfp"
    /\ \E seed \in 0..(NumSeeds - 1) : lfp_data' = Randn(seed)
    /\ n_units_per_shank' = 0
    /\ pc' = "units"
    /\ UNCHANGED <<io, file, position, n_trials, shankn, ielec,
                   electrode_counter, electrodes, n_groups, table_region,
                   values, row_ends, appended, readerVars>>

\* one iteration of the units loop: nwb.add_unit(spike_times=spike_times)
AddUnit ==
    /\ pc = "units"
    /\ n_units_per_shank < n_units
    /\ \E spike_times \in SpikeTrains :
          /\ Len(values) + Len(spike_times) <= MaxValues
          /\ values' = AppendValues(values, spike_times)
          /\ row_ends' = Append(row_ends, NextRowEnd(values, spike_times))
          /\ appended' = Append(appended, spike_times)
    /\ n_units_per_shank' = n_units_per_shank + 1
    /\ UNCHANGED <<pc, io, file, position, n_trials, shankn, ielec,
                   electrode_counter, electrodes, n_groups, table_region,
                   lfp_data, readerVars>>

\* the units loop ends after n_units iterations
UnitsDone ==
    /\ pc = "units"
    /\ n_units_per_shank = n_units
    /\ pc' = "w2_open"
    /\ UNCHANGED <<io, file, writerVars, readerVars>>

\* second write: with NWBHDF5IO(.., 'w') as io: io.write(nwb)
OpenWrite2 == OpenWrite("w2_open", "w2_write")

Write2 == Write("w2_write", "w2_exit")

CloseWrite2 == Close("w2_exit", "r1_open")

(***************************************************************************)
(* Reading.  io.read() binds lazy handles; data is transferred when a      *)
(* handle is indexed.                                                      *)
(***************************************************************************)
\* NWBHDF5IO('ecephys_tutorial.nwb', 'r')
OpenRead(here, next) ==
    /\ pc = here
    /\ io = "closed"
    /\ io' = "r"
    /\ pc' = next
    /\ NoTransfer("open")
    /\ UNCHANGED <<file, writerVars, nwb2>>

\* nwb2 = io.read(): the handles are bound, no data values are read
LazyOpen ==
    /\ io = "r"
    /\ nwb2' = "bound"
    /\ NoTransfer("read")

\* the declared extents of the LFP dataset
LazyShape ==
    /\ io = "r"
    /\ nwb2 = "bound"
    /\ last_op' = "shape"
    /\ out_lfp' = [shape |-> Shape(file.lfp), flat |-> <<>>]
    /\ out_row' = <<>>
    /\ readLfp' = {}
    /\ readValues' = {}
    /\ readIndex' = {}
    /\ UNCHANGED <<nwb2, last_region, last_index>>

\* ...electrical_series['lfp'].data[region], for a region inside the
\* dataset's shape, as both index expressions of the script are; what
\* indexing outside the shape does is h5py's business and is not modelled
LazySlice(region) ==
    /\ io = "r"
    /\ nwb2 = "bound"
    /\ InBounds(file.lfp, region)
    /\ last_op' = "slice"
    /\ last_region' = region
    /\ out_lfp' = Slice(file.lfp, region)
    /\ out_row' = <<>>
    /\ readLfp' = Transferred(file.lfp, region)
    /\ readValues' = {}
    /\ readIndex' = {}
    /\ UNCHANGED <<nwb2, last_index>>

\* a plausible slip: the row of the access before this one is returned
LazyGetRowStale(index) ==
    /\ io = "r"
    /\ nwb2 = "bound"
    /\ file.units
    /\ 0 <= index
    /\ index < row_count(file.row_ends)
    /\ last_op' = "get_row"
    /\ last_index' = index
    /\ out_row' = get_row(file.row_ends, file.values, last_index)
    /\ readIndex' = IndexPositions(file.row_ends, last_index)
    /\ readValues' = ValuePositions(file.row_ends, last_index)
    /\ out_lfp' = NoResult
    /\ readLfp' = {}
    /\ UNCHANGED <<nwb2, last_region>>

\* nwb2.units['spike_times'][index], for the index of an existing row, as
\* the script's index 0 is; what another index does is the library's
\* business and is not modelled
LazyGetRow(index) ==
    /\ io = "r"
    /\ nwb2 = "bound"
    /\ file.units
    /\ 0 <= index
    /\ index < row_count(file.row_ends)
    /\ last_op' = "get_row"
    /\ last_index' = index
    /\ out_row' = get_row(file.row_ends, file.values, index)
    /\ readIndex' = IndexPositions(file.row_ends, index)
    /\ readValues' = ValuePositions(file.row_ends, index)
    /\ out_lfp' = NoResult
    /\ readLfp' = {}
    /\ UNCHANGED <<nwb2, last_region>>

\* first read session: with NWBHDF5IO(.., 'r') as io:
OpenRead1 == OpenRead("r1_open", "r1_read")

\* nwb2 = io.read()
Read1 ==
    /\ pc = "r1_read"
    /\ LazyOpen
    /\ pc' = "r1_slice"
    /\ UNCHANGED <<io, file, writerVars>>

\* print(...electrical_series['lfp'].data[:])
SliceAll1 ==
    /\ pc = "r1_slice"
    /\ LazySlice(<<All>>)
    /\ pc' = "r1_exit"
    /\ UNCHANGED <<io, file, writerVars>>

\* a plausible slip: the print is outside the with block, which is left
\* before the handle is indexed
CloseRead1BeforePrint == Close("r1_slice", "r1_slice")

\* the first read session's with block is left
CloseRead1 == Close("r1_exit", "r2_open")

\* second read session: io = NWBHDF5IO(.., 'r')
OpenRead2 == OpenRead("r2_open", "r2_read")

\* nwb2 = io.read()
Read2 ==
    /\ pc = "r2_read"
    /\ LazyOpen
    /\ pc' = "r2_slice"
    /\ UNCHANGED <<io, file, writerVars>>

\* print(...electrical_series['lfp'].data[:10,:5])
SliceSection2 ==
    /\ pc = "r2_slice"
    /\ LazySlice(<<Range(0, 10), Range(0, 5)>>)
    /\ pc' = "r2_row"
    /\ UNCHANGED <<io, file, writerVars>>

\* print(nwb2.units['spike_times'][0])
GetRow2 ==
    /\ pc = "r2_row"
    /\ LazyGetRow(0)
    /\ pc' = "r2_close"
    /\ UNCHANGED <<io, file, writerVars>>

\* io.close()
CloseRead2 == Close("r2_close", "done")

(***************************************************************************)
(* Exceptions.  A statement that works on the file may raise (the file is  *)
(* missing, damaged or cannot be written); the exception ends the script.  *)
(***************************************************************************)
\* NWBHDF5IO(...) raises: no handle was made
RaiseOnOpen ==
    /\ pc \in {"w1_open", "w2_open", "r1_open", "r2_open"}
    /\ pc' = "failed"
    /\ NoTransfer("raise")
    /\ UNCHANGED <<io, file, writerVars, nwb2>>

\* io.write, io.read or the indexing of a handle raises inside a
\* `with NWBHDF5IO(...) as io:` block: leaving the block closes io
RaiseInWith ==
    /\ pc \in {"w1_write", "w2_write", "r1_read", "r1_slice"}
    /\ io' = "closed"
    /\ nwb2' = Released(nwb2)
    /\ pc' = "failed"
    /\ NoTransfer("raise")
    /\ UNCHANGED <<file, writerVars>>

\* io.read or the indexing of a handle raises between
\* io = NWBHDF5IO(.., 'r') and io.close(): io.close() is not reached
RaiseUnscoped ==
    /\ pc \in {"r2_read", "r2_slice", "r2_row"}
    /\ pc' = "failed"
    /\ NoTransfer("raise")
    /\ UNCHANGED <<io, file, writerVars, nwb2>>

Next ==
    \/ CreatePosition
    \/ OpenWrite1
    \/ Write1
    \/ CloseWrite1
    \/ AddTrials
    \/ ElectrodeSetup
    \/ NextShank
    \/ AddElectrode
    \/ CreateTableRegion
    \/ CreateLfp
    \/ AddUnit
    \/ UnitsDone
    \/ OpenWrite2
    \/ Write2
    \/ CloseWrite2
    \/ OpenRead1
    \/ Read1
    \/ SliceAll1
    \/ CloseRead1
    \/ OpenRead2
    \/ Read2
    \/ SliceSection2
    \/ GetRow2
    \/ CloseRead2
    \/ RaiseOnOpen
    \/ RaiseInWith
    \/ RaiseUnscoped

Spec == Init /\ [][Next]_vars

(***************************************************************************)
(* Indexing a lazy array is a function of the dataset and the region.  To  *)
(* apply it to more regions than the two the script uses, SpecLazy starts  *)
(* in a read session of the script (the file written, opened in mode 'r',  *)
(* every unit without spikes) and indexes the LFP handle with any          *)
(* in-bounds region of Regions.                                            *)
(***************************************************************************)
\* sample offsets along the first axis
RowPoints == {0, 10, NSamples}

\* sample offsets along the second axis
ColPoints == {0, 5, NChannels}

\* selectors of one axis: single indices, contiguous ranges, the full axis
Selectors(points, n) ==
    { Index(i) : i \in { x \in points : x < n } \cup {n - 1} }
    \cup { Range(lo, hi) : lo \in points, hi \in points }
    \cup { All }

\* the regions SpecLazy indexes with: one or two selectors
Regions ==
    { <<s0>> : s0 \in Selectors(RowPoints, NSamples) }
    \cup { <<s0, s1>> : s0 \in Selectors(RowPoints, NSamples),
                        s1 \in Selectors(ColPoints, NChannels) }

\* the script's state in a read session, before io.read()
InitLazy ==
    /\ pc = "lazy"
    /\ io = "r"
    /\ position = [rows |-> NPositionRows, timestamps |-> NTimestamps]
    /\ n_trials = 2
    /\ shankn = 2
    /\ ielec = 3
    /\ electrode_counter = 7
    /\ electrodes = <<0, 0, 0, 0, 1, 1, 1>>
    /\ n_groups = 2
    /\ table_region = <<0, 1, 2, 3, 4, 5, 6>>
    /\ \E seed \in 0..(NumSeeds - 1) : lfp_data = Randn(seed)
    /\ values = <<>>
    /\ row_ends = [k \in 1..n_units |-> 0]
    /\ n_units_per_shank = n_units
    /\ appended = [k \in 1..n_units |-> <<>>]
    /\ file = Persist(lfp_data, values, row_ends)
    /\ nwb2 = "none"
    /\ last_op = "open"
    /\ last_region = NoRegion
    /\ last_index = 0
    /\ out_lfp = NoResult
    /\ out_row = <<>>
    /\ readLfp = {}
    /\ readValues = {}
    /\ readIndex = {}

\* nwb2 = io.read()
HarnessRead ==
    /\ pc = "lazy"
    /\ nwb2 = "none"
    /\ LazyOpen
    /\ UNCHANGED <<pc, io, file, writerVars>>

\* the extents of the LFP dataset are asked for
HarnessShape ==
    /\ pc = "lazy"
    /\ LazyShape
    /\ UNCHANGED <<pc, io, file, writerVars>>

\* the LFP handle is indexed with some in-bounds region
HarnessSlice ==
    /\ pc = "lazy"
    /\ \E region \in Regions : LazySlice(region)
    /\ UNCHANGED <<pc, io, file, writerVars>>

NextLazy ==
    \/ HarnessRead
    \/ HarnessShape
    \/ HarnessSlice

SpecLazy == InitLazy /\ [][NextLazy]_vars

(***************************************************************************)
(* The second read session indexes two handles of one io, one after the    *)
(* other.  SpecReaders starts where the script is about to open the file   *)
(* for reading (the second write done and closed), opens it as the script  *)
(* does, and then makes the script's accesses in any order and any number  *)
(* of times: either LFP region of the script, and any row of the units     *)
(* table.  An access is one step.                                          *)
(***************************************************************************)
\* the two LFP regions the script reads
ReaderRegions == { <<All>>, <<Range(0, 10), Range(0, 5)>> }

\* the rows the units loop may have added: the first three units as drawn,
\* every later unit without spikes
ReaderRows ==
    { [k \in 1..n_units |-> IF k <= 3 THEN first[k] ELSE <<>>] :
        first \in { f \in [1..3 -> SpikeTrains] : SumLens(f) <= MaxValues } }

\* the script's state before its first read-mode opening
InitReaders ==
    /\ pc = "readers_open"
    /\ io = "closed"
    /\ position = [rows |-> NPositionRows, timestamps |-> NTimestamps]
    /\ n_trials = 2
    /\ shankn = 2
    /\ ielec = 3
    /\ electrode_counter = 7
    /\ electrodes = <<0, 0, 0, 0, 1, 1, 1>>
    /\ n_groups = 2
    /\ table_region = <<0, 1, 2, 3, 4, 5, 6>>
    /\ \E seed \in 0..(NumSeeds - 1) : lfp_data = Randn(seed)
    /\ appended \in ReaderRows
    /\ values = Flatten(appended)
    /\ row_ends = [k \in 1..n_units |-> SumLens(SubSeq(appended, 1, k))]
    /\ n_units_per_shank = n_units
    /\ file = Persist(lfp_data, values, row_ends)
    /\ nwb2 = "none"
    /\ last_op = "close"
    /\ last_region = NoRegion
    /\ last_index = 0
    /\ out_lfp = NoResult
    /\ out_row = <<>>
    /\ readLfp = {}
    /\ readValues = {}
    /\ readIndex = {}

\* io = NWBHDF5IO('ecephys_tutorial.nwb', 'r')
ReadersOpen == OpenRead("readers_open", "readers_read")

\* nwb2 = io.read()
ReadersRead ==
    /\ pc = "readers_read"
    /\ LazyOpen
    /\ pc' = "readers"
    /\ UNCHANGED <<io, file, writerVars>>

\* one of the script's LFP reads
ReadersSlice ==
    /\ pc = "readers"
    /\ \E region \in ReaderRegions : LazySlice(region)
    /\ UNCHANGED <<pc, io, file, writerVars>>

\* nwb2.units['spike_times'][index] for some row of the table
ReadersGetRow ==
    /\ pc = "readers"
    /\ \E index \in 0..(n_units - 1) : LazyGetRow(index)
    /\ UNCHANGED <<pc, io, file, writerVars>>

NextReaders ==
    \/ ReadersOpen
    \/ ReadersRead
    \/ ReadersSlice
    \/ ReadersGetRow

SpecReaders == InitReaders /\ [][NextReaders]_vars

(***************************************************************************)
(* Properties of the indexed column (checked under Spec).                  *)
(***************************************************************************)
\* the file has been written with the units table and read back
Reloaded == file.units /\ io = "r" /\ nwb2 = "bound"

RECURSIVE CumulativeLengths(_)
\* the row breaks that rows of these lengths should give
CumulativeLengths(rows) ==
    IF rows = <<>> THEN <<>>
    ELSE LET n     == Len(rows)
             front == CumulativeLengths(SubSeq(rows, 1, n - 1))
         IN  Append(front, (IF n = 1 THEN 0 ELSE front[n - 1]) + Len(rows[n]))

\* C1: round trip.  Once the rows passed to add_unit have been written and
\* read back, the two buffers in the file are the concatenation of the rows
\* and their cumulative lengths, row i read from the file is exactly the
\* i-th row passed (empty rows included), and the row the script prints is
\* the row that was passed at that index.
RoundTrip ==
    Reloaded =>
        /\ file.values = Flatten(appended)
        /\ file.row_ends = CumulativeLengths(appended)
        /\ \A i \in 0..(Len(appended) - 1) :
              get_row(file.row_ends, file.values, i) = appended[i + 1]
        /\ (last_op = "get_row" => out_row = appended[last_index + 1])

\* C1 witness: rows <<1>>, <<>>, <<2>> (then empty rows) were written and
\* read back, and row 0 was printed.
RoundTripWitness ==
    /\ Reloaded
    /\ last_op = "get_row"
    /\ SubSeq(appended, 1, 3) = << <<1>>, <<>>, <<2>> >>
    /\ file.row_ends[1] = 1 /\ file.row_ends[2] = 1 /\ file.row_ends[3] = 2
    /\ file.values = <<1, 2>>
    /\ out_row = <<1>>
    /\ get_row(file.row_ends, file.values, 1) = <<>>
    /\ get_row(file.row_ends, file.values, 2) = <<2>>

\* the layout invariant of an index over a buffer
WellFormed(ends, vals) ==
    /\ \A k \in 1..(Len(ends) - 1) : ends[k] <= ends[k + 1]
    /\ \A i \in 0..(Len(ends) - 1) :
          /\ 0 <= RowStart(ends, i)
          /\ RowStart(ends, i) <= Len(vals)
          /\ 0 <= RowEnd(ends, i)
          /\ RowEnd(ends, i) <= Len(vals)

\* C2: in every reachable state row_ends is non-decreasing and every row's
\* start and end offsets lie within [0, len(values)], in memory and in the
\* file; once the units table has been written, the last row break in the
\* file equals the length of the values buffer in the file.
LayoutInvariant ==
    /\ WellFormed(row_ends, values)
    /\ WellFormed(file.row_ends, file.values)
    /\ file.units =>
          /\ file.row_ends # <<>>
          /\ file.row_ends[Len(file.row_ends)] = Len(file.values)

\* C2 witness: a written store with an empty row between two rows of one
\* element and empty rows after them.
LayoutWitness ==
    /\ file.units
    /\ file.row_ends[1] = 1
    /\ file.row_ends[2] = 1
    /\ file.row_ends[3] = 2
    /\ file.row_ends[n_units] = 2
    /\ Len(file.values) = 2

RowPositions(cum, i) == (IF i = 0 THEN 0 ELSE cum[i])..(cum[i + 1] - 1)

RequestedShape(region, shape) ==
    LET r == Normalise(region)
        extent(d) == IF r[d].kind = "all" THEN shape[d]
                     ELSE r[d].hi - r[d].lo
    IN  (IF r[1].kind = "index" THEN <<>> ELSE <<extent(1)>>)
        \o (IF r[2].kind = "index" THEN <<>> ELSE <<extent(2)>>)

\* the rows of a materialized two-dimensional array
RowsOf(array) ==
    [i \in 1..array.shape[1] |->
        SubSeq(array.flat, (i - 1) * array.shape[2] + 1, i * array.shape[2])]

\* the elements of a region of a materialized array: the selected rows,
\* each cut to the selected columns
MemRegion(array, region) ==
    LET r    == Normalise(region)
        rows == SubSeq(RowsOf(array), SelLo(r[1], array.shape[1]) + 1,
                       SelHi(r[1], array.shape[1]))
    IN  Flatten([i \in 1..Len(rows) |->
                    SubSeq(rows[i], SelLo(r[2], array.shape[2]) + 1,
                           SelHi(r[2], array.shape[2]))])

\* C7: for every in-bounds region, data[region] has the shape of the
\* requested region and its values are the same region of the fully
\* materialized array data[:].
SliceMatchesMaterialized ==
    last_op = "slice" =>
        /\ InBounds(file.lfp, last_region)
        /\ out_lfp.shape = RequestedShape(last_region, <<NSamples, NChannels>>)
        /\ out_lfp.flat = MemRegion(Slice(file.lfp, <<All>>), last_region)

\* C7 witness: data[:10,:5] was read from the second of the arrays: ten rows
\* of five values, starting 1, 4, 7, ...
SliceWitness ==
    /\ last_op = "slice"
    /\ last_region = <<Range(0, 10), Range(0, 5)>>
    /\ file.lfp.seed = 1
    /\ out_lfp.shape = <<10, 5>>
    /\ Len(out_lfp.flat) = 50
    /\ out_lfp.flat[1] = 1
    /\ out_lfp.flat[2] = 4
    /\ out_lfp.flat[6] = 22

\* the element with this row-major offset lies in the region
Addressed(region, shape, offset) ==
    LET r == Normalise(region)
        covers(d, x) == CASE r[d].kind = "all"   -> TRUE
                          [] r[d].kind = "index" -> x = r[d].lo
                          [] OTHER -> r[d].lo <= x /\ x < r[d].hi
    IN  /\ covers(1, offset \div shape[2])
        /\ covers(2, offset % shape[2])

ClosedOnEveryExit ==
    pc \in {"done", "failed"} => io = "closed"

(***************************************************************************)
(* Properties of the electrodes and of the position series (checked under  *)
(* Spec).                                                                  *)
(***************************************************************************)
\* rows of the electrodes table that belong to group g
RowsOfGroup(g) == { k \in 1..Len(electrodes) : electrodes[k] = g }

\* C13: the electrode loop sets up 4 shanks with 3 electrodes each: after
\* the loop there are 4 electrode groups and every group has exactly 3 rows
\* of the electrodes table.
FourShanksOfThree ==
    pc = "region" =>
        /\ n_groups = 4
        /\ \A g \in 0..(n_groups - 1) : Cardinality(RowsOfGroup(g)) = 3

\* the table region has been created
RegionCreated == pc = "lfp" \/ lfp_data # NoArray

\* C14: before, between and after the iterations of the electrode loop
\* electrode_counter is the number of rows of the electrodes table; the
\* table region created from it references every row of the table exactly
\* once and nothing else; and the LFP array that uses the region has as
\* many columns as the region has entries.
CounterMatchesTable ==
    /\ electrode_counter = Len(electrodes)
    /\ RegionCreated =>
          /\ \A k \in 1..Len(table_region) :
                table_region[k] \in 0..(Len(electrodes) - 1)
          /\ \A row \in 0..(Len(electrodes) - 1) :
                Cardinality({ k \in 1..Len(table_region) :
                                table_region[k] = row }) = 1
    /\ lfp_data # NoArray => Len(table_region) = lfp_data.shape[2]

\* C14 witness: the loop added 7 rows, the region lists rows 0..6 and the
\* LFP array with 7 columns has been created.
CounterWitness ==
    /\ pc = "units"
    /\ electrode_counter = 7
    /\ Len(electrodes) = 7
    /\ table_region = <<0, 1, 2, 3, 4, 5, 6>>
    /\ lfp_data.shape = <<100, 7>>

\* C15: the SpatialSeries 'position' has one timestamp per data sample: the
\* number of its timestamps equals the number of rows of position_data.
TimestampPerSample ==
    position # <<>> => position.timestamps = position.rows

(***************************************************************************)
(* Order of the read sessions (checked under Spec).                        *)
(***************************************************************************)
\* C16: whenever the script is about to index a lazy handle (data[:],
\* data[:10,:5], units['spike_times'][0]), and when it has just done so, the
\* file is open for reading and io.read() of that session has returned and
\* the file has not been closed since; and the file is opened for reading
\* only with the write handle closed and the final write on disk.
ReadOrdering ==
    /\ pc \in {"r1_slice", "r2_slice", "r2_row"} =>
          io = "r" /\ nwb2 = "bound"
    /\ last_op \in {"slice", "get_row"} => io = "r" /\ nwb2 = "bound"
    /\ pc \in {"r1_open", "r2_open"} => io = "closed" /\ nwb2 # "bound"
    /\ (io = "r" \/ pc \in {"r1_open", "r2_open"}) =>
          /\ file = Persist(lfp_data, values, row_ends)
          /\ row_count(file.row_ends) = n_units
          /\ file.lfp # NoDataset

\* C16 witness: in the second read session, after the first was closed,
\* the LFP section and then row 0 were read and io.close() is still to come.
ReadOrderingWitness ==
    /\ pc = "r2_close"
    /\ io = "r"
    /\ nwb2 = "bound"
    /\ last_op = "get_row"
    /\ last_region = <<Range(0, 10), Range(0, 5)>>
    /\ out_row = <<1, 2>>

====
